---- MODULE Spec2Model ----
(***************************************************************************)
(* Model of the position ledger of app.py: a trade table persisted in a    *)
(* Google Sheets worksheet ("Sheet1"), read through the process-wide       *)
(* st.cache_data cache of get_data_cached, and rewritten whole by          *)
(* save_data from add_buy_position, close_position and delete_trade.       *)
(*                                                                         *)
(* Encoding.  A worksheet cell of a numeric column is a record             *)
(* [k, v]: k = "num" for a number v, k = "txt" for a non-numeric text      *)
(* (v tells texts apart), k = "blank" for an empty cell.  Text cells are   *)
(* strings, "" being the empty cell.  Notes are sequences of tokens so     *)
(* that concatenation and prefixes can be computed.  In memory a missing   *)
(* value of an object column is NaN (what an empty cell is read as) or     *)
(* None (what line 40 fills a missing column with).  Prices are exact      *)
(* numbers (floating-point rounding is not modelled); pnl_percent is an    *)
(* exact fraction <<numerator, denominator>> in lowest terms.              *)
(***************************************************************************)
EXTENDS Integers, Sequences, FiniteSets, TLC

\* ---------------------------------------------------------------- bounds
MaxRows == 2        \* rows a table may hold
MaxId == 3          \* largest id add_buy_position may allocate
MaxNotesLen == 5    \* tokens of a notes value
MaxRestarts == 2    \* process restarts in one behaviour

\* ---------------------------------------------------------------- schema
COLUMNS ==
  <<"id", "symbol", "buy_price", "sell_price", "quantity",
    "open_date", "close_date", "pnl", "pnl_percent", "status", "notes">>

ColumnSet == {COLUMNS[i] : i \in 1..Len(COLUMNS)}

\* ------------------------------------------------------------ cell values
Num(n) == [k |-> "num", v |-> n]
Txt(n) == [k |-> "txt", v |-> n]
Blank == [k |-> "blank", v |-> 0]

\* pnl_percent values: exact fractions, or a missing value
RECURSIVE Gcd(_, _)
Gcd(a, b) == IF b = 0 THEN a ELSE Gcd(b, a % b)

Abs(n) == IF n < 0 THEN 0 - n ELSE n

Rat(n, d) ==
  LET g == Gcd(Abs(n), Abs(d))
      s == IF d < 0 THEN 0 - 1 ELSE 1
  IN <<(s * n) \div g, (s * d) \div g>>

PNum(n, d) == [k |-> "num", v |-> Rat(n, d)]
PNaN == [k |-> "nan", v |-> <<0, 1>>]
PBlank == [k |-> "blank", v |-> <<0, 1>>]

\* missing values of the in-memory table
NaN == "<NaN>"
None == "<None>"
NaNNotes == <<"<NaN>">>
NoneNotes == <<"<None>">>
NaT == 0

\* the separator close_position puts between old and new notes
SEP == "| sell note:"

\* str(x) of a notes value: str(nan) is the text "nan", str(None) "None"
Str(n) ==
  IF n = NaNNotes THEN <<"nan">>
  ELSE IF n = NoneNotes THEN <<"None">>
  ELSE n

\* Python truthiness of a notes value: "" and None are falsy, NaN is truthy
Truthy(n) == n # <<>> /\ n # NoneNotes

\* str.upper()
upper(s) ==
  CASE s = "aapl" -> "AAPL"
    [] s = "msft" -> "MSFT"
    [] OTHER -> s

\* pd.to_datetime(..., errors='coerce') of a worksheet text
to_datetime(s) ==
  CASE s = "2024-01-01" -> 1
    [] s = "2024-01-02" -> 2
    [] s = "2024-01-03" -> 3
    [] OTHER -> NaT

\* .dt.strftime('%Y-%m-%d') followed by fillna(""): NaT becomes ""
strftime(d) ==
  CASE d = 1 -> "2024-01-01"
    [] d = 2 -> "2024-01-02"
    [] d = 3 -> "2024-01-03"
    [] OTHER -> ""

\* pd.to_numeric(..., errors='coerce').fillna(0)
to_numeric(c) == IF c.k = "num" THEN c.v ELSE 0

\* ------------------------------------------------------------------ state
VARIABLES
  sheet,    \* the worksheet "Sheet1": [cols: set of column names, rows]
  cache,    \* the value st.cache_data holds for get_data_cached()
  loaded,   \* whether the cache entry of get_data_cached() exists
  last,     \* the last call: its name, its arguments and what it found
  start,    \* history: the worksheet the behaviour started from
  restarts, \* history: how many times the process was restarted
  opened,   \* history: id -> the arguments of the last add_buy_position
            \* call that was given this id
  sess      \* the sessions whose script runs are in progress: where each
            \* one is, its request, the table it is about to save, and the
            \* order of their reads and writes

vars == <<sheet, cache, loaded, last, start, restarts, opened, sess>>

\* a worksheet row whose cells are all empty
BlankRow ==
  [id |-> Blank, symbol |-> "", buy_price |-> Blank, sell_price |-> Blank,
   quantity |-> Blank, open_date |-> "", close_date |-> "", pnl |-> Blank,
   pnl_percent |-> PBlank, status |-> "", notes |-> <<>>]

\* the row of the DataFrame that line 27 would hold no rows of; also the
\* placeholder of "no row" in the history
NoRow ==
  [id |-> 0, symbol |-> None, buy_price |-> 0, sell_price |-> 0,
   quantity |-> 0, open_date |-> NaT, close_date |-> NaT, pnl |-> 0,
   pnl_percent |-> PNaN, status |-> None, notes |-> NoneNotes]

\* --------------------------------------------------------------- the load
\* conn.read: an empty cell of an object column is read as NaN
read_text(s) == IF s = "" THEN NaN ELSE s

read_notes(n) == IF n = <<>> THEN NaNNotes ELSE n

read_pnl_percent(c) == IF c.k = "blank" THEN PNaN ELSE c

\* lines 34-51 on one row: keep the canonical columns the worksheet has,
\* fill the missing ones with None, coerce the numeric and date columns
normalize_row(cols, r) ==
  [id          |-> IF "id" \in cols THEN to_numeric(r.id) ELSE 0,
   symbol      |-> IF "symbol" \in cols THEN read_text(r.symbol) ELSE None,
   buy_price   |-> IF "buy_price" \in cols THEN to_numeric(r.buy_price) ELSE 0,
   sell_price  |-> IF "sell_price" \in cols THEN to_numeric(r.sell_price) ELSE 0,
   quantity    |-> IF "quantity" \in cols THEN to_numeric(r.quantity) ELSE 0,
   open_date   |-> IF "open_date" \in cols THEN to_datetime(r.open_date) ELSE NaT,
   close_date  |-> IF "close_date" \in cols THEN to_datetime(r.close_date) ELSE NaT,
   pnl         |-> IF "pnl" \in cols THEN to_numeric(r.pnl) ELSE 0,
   pnl_percent |-> IF "pnl_percent" \in cols
                     THEN read_pnl_percent(r.pnl_percent) ELSE PNaN,
   status      |-> IF "status" \in cols THEN read_text(r.status) ELSE None,
   notes       |-> IF "notes" \in cols THEN read_notes(r.notes) ELSE NoneNotes]

\* line 26: df.empty or len(df.columns) < len(COLUMNS)
needs_init(sh) ==
  Len(sh.rows) = 0 \/ sh.cols = {} \/ Cardinality(sh.cols) < Len(COLUMNS)

\* the DataFrame get_data_cached() returns for worksheet sh
load_table(sh) ==
  IF needs_init(sh) THEN <<>>
  ELSE [i \in 1..Len(sh.rows) |-> normalize_row(sh.cols, sh.rows[i])]

\* the columns of the DataFrame get_data_cached() returns: line 27 for the
\* re-initialised table, else the canonical columns the worksheet has
\* (lines 34-35) and the missing ones that lines 38-40 add
load_columns(sh) ==
  IF needs_init(sh) THEN ColumnSet
  ELSE LET existing_cols == {c \in ColumnSet : c \in sh.cols}
       IN existing_cols \cup {c \in ColumnSet : c \notin existing_cols}

\* load_sheet that rewrites the worksheet whatever it holds
load_sheet_always(sh) == [cols |-> ColumnSet, rows |-> <<>>]

\* load_sheet without the write of line 29
load_sheet_unwritten(sh) == sh

\* the worksheet get_data_cached() leaves behind (line 29 rewrites it)
load_sheet(sh) ==
  IF needs_init(sh) THEN [cols |-> ColumnSet, rows |-> <<>>] ELSE sh

\* --------------------------------------------------------------- the save
save_text(s) == IF s = NaN \/ s = None THEN "" ELSE s

save_notes(n) == IF n = NaNNotes \/ n = NoneNotes THEN <<>> ELSE n

save_pnl_percent(c) == IF c.k = "nan" THEN PBlank ELSE c

\* lines 63-75 on one row
save_row(r) ==
  [id          |-> Num(r.id),
   symbol      |-> save_text(r.symbol),
   buy_price   |-> Num(r.buy_price),
   sell_price  |-> Num(r.sell_price),
   quantity    |-> Num(r.quantity),
   open_date   |-> strftime(r.open_date),
   close_date  |-> strftime(r.close_date),
   pnl         |-> Num(r.pnl),
   pnl_percent |-> save_pnl_percent(r.pnl_percent),
   status      |-> save_text(r.status),
   notes       |-> save_notes(r.notes)]

\* the worksheet after conn.update(worksheet="Sheet1", data=save_df)
save_data(df) ==
  [cols |-> ColumnSet, rows |-> [i \in 1..Len(df) |-> save_row(df[i])]]

\* ---------------------------------------------------------------- reads
\* get_data() as if every call ran get_data_cached() again (no cache)
get_data_fresh == load_table(sheet)

\* get_data(): st.cache_data runs get_data_cached() when it holds no entry
\* and otherwise hands the caller a copy of the cached value
get_data == IF loaded THEN cache ELSE load_table(sheet)

\* the worksheet once get_data() has returned
sheet_read == IF loaded THEN sheet ELSE load_sheet(sheet)

\* lines 147-150
get_open_positions ==
  LET open(r) == r.status = "OPEN" IN SelectSeq(get_data, open)

\* line 155: df[df['status'] == 'CLOSED']
closed_rows(df) ==
  LET closed(r) == r.status = "CLOSED" IN SelectSeq(df, closed)

\* sort_values(by='close_date', ascending=False) accepts this order of two
\* rows: later dates first, NaT last (na_position='last')
may_precede(a, b) ==
  \/ b.close_date = NaT
  \/ a.close_date # NaT /\ a.close_date >= b.close_date

\* lines 152-158.  sort_values is called with its default kind='quicksort',
\* which is not a stable sort: the order of rows with equal close_date is
\* not determined, so the operator yields every table the call may return
get_closed_trades ==
  LET c == closed_rows(get_data)
      n == Len(c)
  IN {[i \in 1..n |-> c[p[i]]] : p \in
        {q \in Permutations(1..n) :
           \A i, j \in 1..n : i < j => may_precede(c[q[i]], c[q[j]])}}

\* ----------------------------------------------------- add_buy_position
RECURSIVE max_id(_)
\* df['id'].max() of a non-empty table
max_id(df) ==
  IF Len(df) = 1 THEN df[1].id
  ELSE LET m == max_id(Tail(df)) IN IF df[1].id > m THEN df[1].id ELSE m

\* new_id without the "+ 1" of line 87
new_id_max(df) ==
  IF Len(df) > 0 /\ max_id(df) > 0 THEN max_id(df) ELSE 1

\* lines 84-87
new_id(df) ==
  IF Len(df) > 0 /\ max_id(df) > 0 THEN max_id(df) + 1 ELSE 1

\* lines 89-101
new_row(df, symbol, buy_price, quantity, open_date, notes) ==
  [id |-> new_id(df), symbol |-> upper(symbol), buy_price |-> buy_price,
   sell_price |-> 0, quantity |-> quantity, open_date |-> open_date,
   close_date |-> NaT, pnl |-> 0, pnl_percent |-> PNum(0, 1),
   status |-> "OPEN", notes |-> notes]

\* line 104: pd.concat([df, new_row], ignore_index=True)
add_table(df, symbol, buy_price, quantity, open_date, notes) ==
  Append(df, new_row(df, symbol, buy_price, quantity, open_date, notes))

\* ------------------------------------------------------- close_position
\* line 112: the positions of the rows whose id is trade_id
mask(df, trade_id) == {i \in 1..Len(df) : df[i].id = trade_id}

\* line 115: df[mask].index[0]
first_index(df, trade_id) ==
  CHOOSE i \in mask(df, trade_id) : \A j \in mask(df, trade_id) : i <= j

\* pnl_percent_of without the "* 100" of line 126
pnl_percent_of_ratio(pnl, cost) ==
  IF cost # 0 THEN PNum(pnl, cost) ELSE PNum(0, 1)

\* line 126
pnl_percent_of(pnl, cost) ==
  IF cost # 0 THEN PNum(pnl * 100, cost) ELSE PNum(0, 1)

\* line 128
new_notes(old_notes, notes) ==
  IF Truthy(old_notes) THEN Str(old_notes) \o <<SEP>> \o notes ELSE notes

\* close_row that also zeroes the quantity of the position it sells
close_row_sold_out(r, sell_price, close_date, notes) ==
  LET cost == r.buy_price * r.quantity
      revenue == sell_price * r.quantity
      pnl == revenue - cost
  IN [r EXCEPT !.sell_price = sell_price,
               !.close_date = close_date,
               !.pnl = pnl,
               !.pnl_percent = pnl_percent_of(pnl, cost),
               !.status = "CLOSED",
               !.quantity = 0,
               !.notes = new_notes(r.notes, notes)]

\* lines 118-136 on the row found
close_row(r, sell_price, close_date, notes) ==
  LET cost == r.buy_price * r.quantity
      revenue == sell_price * r.quantity
      pnl == revenue - cost
  IN [r EXCEPT !.sell_price = sell_price,
               !.close_date = close_date,
               !.pnl = pnl,
               !.pnl_percent = pnl_percent_of(pnl, cost),
               !.status = "CLOSED",
               !.notes = new_notes(r.notes, notes)]

\* the table close_position saves when the id is found
close_table(df, trade_id, sell_price, close_date, notes) ==
  LET idx == first_index(df, trade_id)
  IN [df EXCEPT ![idx] = close_row(df[idx], sell_price, close_date, notes)]

\* --------------------------------------------------------- delete_trade
\* line 144: df[df['id'] != trade_id]
delete_table(df, trade_id) ==
  LET keep(r) == r.id # trade_id IN SelectSeq(df, keep)

\* ------------------------------------------------------ inputs and Init
Symbols == {"aapl"}
BuyPrices == {1, 2}
Quantities == {2}
OpenDates == {1}
OpenNotes == {<<>>, <<"A">>}
SellPrices == {1, 3}
CloseDates == {2}
CloseNotes == {<<>>, <<"B">>}
TradeIds == 0..MaxId

\* a well-formed OPEN row as the program writes it
OpenRow(id, buy_price, quantity, notes) ==
  [BlankRow EXCEPT !.id = Num(id), !.symbol = "MSFT",
                   !.buy_price = Num(buy_price), !.sell_price = Num(0),
                   !.quantity = Num(quantity), !.open_date = "2024-01-01",
                   !.pnl = Num(0), !.pnl_percent = PNum(0, 1),
                   !.status = "OPEN", !.notes = notes]

\* a well-formed CLOSED row as the program writes it
ClosedRow(id, buy_price, quantity, sell_price, notes) ==
  [OpenRow(id, buy_price, quantity, notes) EXCEPT
     !.sell_price = Num(sell_price), !.close_date = "2024-01-02",
     !.pnl = Num((sell_price - buy_price) * quantity),
     !.pnl_percent = PNum((sell_price - buy_price) * quantity * 100,
                          buy_price * quantity),
     !.status = "CLOSED"]

\* the worksheets the program may find when it starts: the store enforces
\* no schema, so cells may be empty or hold text where a number belongs
InitSheets ==
  { \* a new, empty worksheet
    [cols |-> {}, rows |-> <<>>],
    \* a worksheet holding one open and one closed trade
    [cols |-> ColumnSet,
     rows |-> <<OpenRow(1, 2, 2, <<"A">>),
                ClosedRow(2, 1, 2, 3, <<"A", SEP, "B">>)>>],
    \* a trade bought at price 0 (cost basis 0)
    [cols |-> ColumnSet, rows |-> <<OpenRow(1, 0, 5, <<>>)>>],
    \* id cells that hold two different texts instead of numbers
    [cols |-> ColumnSet,
     rows |-> <<[OpenRow(1, 1, 1, <<>>) EXCEPT !.id = Txt(1)],
                [OpenRow(1, 2, 1, <<>>) EXCEPT !.id = Txt(2)]>>],
    \* the notes column is missing and a foreign column is present
    [cols |-> (ColumnSet \ {"notes"}) \cup {"extra"},
     rows |-> <<OpenRow(1, 1, 2, <<>>)>>],
    \* fewer columns than the canonical set
    [cols |-> {"id", "symbol"}, rows |-> <<OpenRow(1, 1, 1, <<>>)>>] }

NoCall ==
  [op |-> "none", id |-> 0, found |-> FALSE, sell_price |-> 0,
   notes |-> <<>>, row |-> NoRow]

\* the browser sessions of the race of two script runs
Sessions == {1, 2}

\* no script run is in progress
NoSession ==
  [pc |-> [s \in Sessions |-> "idle"],
   op |-> [s \in Sessions |-> NoCall],
   df |-> [s \in Sessions |-> <<>>],
   saves |-> [s \in Sessions |-> FALSE],
   log |-> <<>>]

Init ==
  /\ sheet \in InitSheets
  /\ cache = <<>>
  /\ loaded = FALSE
  /\ last = NoCall
  /\ start = sheet
  /\ restarts = 0
  /\ opened = <<>>
  /\ sess = NoSession

\* ---------------------------------------------------------------- actions
\* a read of the page (get_open_positions, get_closed_trades, get_data) in a
\* process whose cache is empty: get_data_cached() runs (lines 19-53) and
\* st.cache_data keeps its result without expiry
get_data_cached ==
  /\ ~loaded
  /\ cache' = get_data
  /\ sheet' = sheet_read
  /\ loaded' = TRUE
  /\ last' = [NoCall EXCEPT !.op = "load"]
  /\ UNCHANGED <<start, restarts, opened, sess>>

add_buy_position(symbol, buy_price, quantity, open_date, notes) ==
  LET df == get_data
      row == new_row(df, symbol, buy_price, quantity, open_date, notes)
  IN /\ Len(df) < MaxRows
     /\ row.id <= MaxId
     /\ sheet' = save_data(
                   add_table(df, symbol, buy_price, quantity, open_date, notes))
     /\ last' = [NoCall EXCEPT !.op = "add", !.id = row.id, !.notes = notes,
                               !.row = row]
     /\ opened' = [i \in DOMAIN opened \cup {row.id} |->
                     IF i = row.id
                       THEN [buy_price |-> buy_price, quantity |-> quantity,
                             notes |-> notes]
                       ELSE opened[i]]
     /\ cache' = df
     /\ loaded' = TRUE
     /\ UNCHANGED <<start, restarts, sess>>

close_position(trade_id, sell_price, close_date, notes) ==
  LET df == get_data
      found == mask(df, trade_id) # {}
  IN /\ found =>
          Len(new_notes(df[first_index(df, trade_id)].notes, notes))
            <= MaxNotesLen
     /\ sheet' = IF found
                   THEN save_data(close_table(df, trade_id, sell_price,
                                              close_date, notes))
                   ELSE sheet_read
     /\ last' = [op |-> "close", id |-> trade_id, found |-> found,
                 sell_price |-> sell_price, notes |-> notes,
                 row |-> IF found THEN df[first_index(df, trade_id)]
                                  ELSE NoRow]
     /\ cache' = df
     /\ loaded' = TRUE
     /\ UNCHANGED <<start, restarts, opened, sess>>

delete_trade(trade_id) ==
  LET df == get_data
  IN /\ sheet' = save_data(delete_table(df, trade_id))
     /\ last' = [NoCall EXCEPT !.op = "delete", !.id = trade_id,
                               !.found = mask(df, trade_id) # {}]
     /\ cache' = df
     /\ loaded' = TRUE
     /\ UNCHANGED <<start, restarts, opened, sess>>

\* the process ends and a new one starts: the in-memory cache is gone
Restart ==
  /\ loaded
  /\ restarts < MaxRestarts
  /\ restarts' = restarts + 1
  /\ loaded' = FALSE
  /\ cache' = <<>>
  /\ last' = [NoCall EXCEPT !.op = "restart"]
  /\ UNCHANGED <<sheet, start, opened, sess>>

Next ==
  \/ get_data_cached
  \/ \E symbol \in Symbols, buy_price \in BuyPrices, quantity \in Quantities,
        open_date \in OpenDates, notes \in OpenNotes :
       add_buy_position(symbol, buy_price, quantity, open_date, notes)
  \/ \E trade_id \in TradeIds, sell_price \in SellPrices,
        close_date \in CloseDates, notes \in CloseNotes :
       close_position(trade_id, sell_price, close_date, notes)
  \/ \E trade_id \in TradeIds : delete_trade(trade_id)
  \/ Restart

Spec == Init /\ [][Next]_vars

\* ------------------------------------- the form and failures of the store
FormSymbols == Symbols \cup {""}
FormPrices == BuyPrices \cup {0}
\* the widget of line 175 has min_value=1; 0 is kept so that the test of
\* the quantity at line 183 is exercised as well
FormQuantities == Quantities \cup {0}

\* line 183 without the test of the price
valid_open_no_price(symbol, price, quantity) == symbol # "" /\ quantity > 0

\* line 183: symbol and price > 0 and quantity > 0
valid_open(symbol, price, quantity) ==
  symbol # "" /\ price > 0 /\ quantity > 0

\* lines 182-188: the submitted buy form
trade_form(symbol, price, quantity, date_val, notes) ==
  \/ /\ valid_open(symbol, price, quantity)
     /\ add_buy_position(symbol, price, quantity, date_val, notes)
  \/ /\ ~valid_open(symbol, price, quantity)
     /\ last' = [NoCall EXCEPT !.op = "rejected"]
     /\ UNCHANGED <<sheet, cache, loaded, start, restarts, opened, sess>>

\* get_data() in a process whose cache is empty, when conn.read (line 23)
\* or the conn.update of line 29 raises: the exception leaves the function,
\* nothing is cached and nothing was written
load_fails ==
  /\ ~loaded
  /\ last' = [NoCall EXCEPT !.op = "read_error"]
  /\ UNCHANGED <<sheet, cache, loaded, start, restarts, opened, sess>>

\* add_buy_position, close_position or delete_trade when the conn.update
\* of save_data (line 77) raises: get_data() has returned, the table was
\* changed in memory only, and the exception leaves the operation
save_fails ==
  /\ cache' = get_data
  /\ loaded' = TRUE
  /\ sheet' = sheet_read
  /\ last' = [NoCall EXCEPT !.op = "write_error"]
  /\ UNCHANGED <<start, restarts, opened, sess>>

NextForm ==
  \/ get_data_cached
  \/ \E symbol \in FormSymbols, price \in FormPrices,
        quantity \in FormQuantities, date_val \in OpenDates,
        notes \in OpenNotes :
       trade_form(symbol, price, quantity, date_val, notes)
  \/ \E trade_id \in TradeIds, sell_price \in SellPrices,
        close_date \in CloseDates, notes \in CloseNotes :
       close_position(trade_id, sell_price, close_date, notes)
  \/ \E trade_id \in TradeIds : delete_trade(trade_id)
  \/ load_fails
  \/ save_fails

\* the submitted forms and the failures of the store, within one process
SpecForm == Init /\ [][NextForm]_vars

\* ------------------------------------------- two sessions of one process
\* the requests a session may submit
Requests ==
  {[op |-> "add", id |-> 0, symbol |-> symbol, price |-> buy_price,
    quantity |-> quantity, date |-> open_date, notes |-> notes] :
     symbol \in Symbols, buy_price \in BuyPrices, quantity \in Quantities,
     open_date \in OpenDates, notes \in OpenNotes}
  \cup
  {[op |-> "close", id |-> trade_id, symbol |-> "", price |-> sell_price,
    quantity |-> 0, date |-> close_date, notes |-> notes] :
     trade_id \in TradeIds, sell_price \in SellPrices,
     close_date \in CloseDates, notes \in CloseNotes}
  \cup
  {[op |-> "delete", id |-> trade_id, symbol |-> "", price |-> 0,
    quantity |-> 0, date |-> NaT, notes |-> <<>>] : trade_id \in TradeIds}

\* whether the operation reaches save_data: close_position returns at
\* line 114 without saving when no row has the id
saves(df, o) == o.op = "close" => mask(df, o.id) # {}

\* the table the operation hands to save_data
request_table(df, o) ==
  CASE o.op = "add" ->
         add_table(df, o.symbol, o.price, o.quantity, o.date, o.notes)
    [] o.op = "close" ->
         close_table(df, o.id, o.price, o.date, o.notes)
    [] o.op = "delete" -> delete_table(df, o.id)

\* the first half of an operation run by session s: get_data() and the
\* change of the table in memory, up to the call of save_data
session_read(s, o) ==
  LET df == get_data
  IN /\ sess.pc[s] = "idle"
     /\ o.op = "add" =>
          /\ Len(df) < MaxRows
          /\ new_id(df) <= MaxId
     /\ (o.op = "close" /\ saves(df, o)) =>
          Len(new_notes(df[first_index(df, o.id)].notes, o.notes))
            <= MaxNotesLen
     /\ sess' = [sess EXCEPT
                   !.pc[s] = "read",
                   !.op[s] = [NoCall EXCEPT !.op = o.op, !.id = o.id,
                                            !.notes = o.notes],
                   !.df[s] = IF saves(df, o) THEN request_table(df, o)
                                             ELSE df,
                   !.saves[s] = saves(df, o),
                   !.log = Append(@, <<"read", s>>)]
     /\ cache' = df
     /\ loaded' = TRUE
     /\ sheet' = sheet_read
     /\ last' = [NoCall EXCEPT !.op = "session"]
     /\ UNCHANGED <<start, restarts, opened>>

\* a write that gives way when another session has written since
session_write_first_wins(s) ==
  /\ sess.pc[s] = "read"
  /\ sess.saves[s]
  /\ sheet' = IF \E i \in 1..Len(sess.log) : sess.log[i][1] = "write"
                THEN sheet
                ELSE save_data(sess.df[s])
  /\ sess' = [sess EXCEPT !.pc[s] = "done",
                          !.log = Append(@, <<"write", s>>)]
  /\ last' = [NoCall EXCEPT !.op = "session"]
  /\ UNCHANGED <<cache, loaded, start, restarts, opened>>

\* the second half: save_data rewrites the whole worksheet (line 77) with
\* the table of this session, whatever the worksheet holds by now
session_write(s) ==
  /\ sess.pc[s] = "read"
  /\ sess.saves[s]
  /\ sheet' = save_data(sess.df[s])
  /\ sess' = [sess EXCEPT !.pc[s] = "done",
                          !.log = Append(@, <<"write", s>>)]
  /\ last' = [NoCall EXCEPT !.op = "session"]
  /\ UNCHANGED <<cache, loaded, start, restarts, opened>>

\* close_position found no row with the id and returns False (line 114)
session_return(s) ==
  /\ sess.pc[s] = "read"
  /\ ~sess.saves[s]
  /\ sess' = [sess EXCEPT !.pc[s] = "done"]
  /\ last' = [NoCall EXCEPT !.op = "session"]
  /\ UNCHANGED <<sheet, cache, loaded, start, restarts, opened>>

NextRace ==
  \/ \E s \in Sessions, o \in Requests : session_read(s, o)
  \/ \E s \in Sessions : session_write(s)
  \/ \E s \in Sessions : session_return(s)

\* two sessions of one process, each running one operation, step by step
SpecRace == Init /\ [][NextRace]_vars

\* ------------------------------------------------- vocabulary of the claims
\* the table a fresh load would return for worksheet sh
Persisted(sh) == load_table(sh)

\* the ids of the rows of a table
IdsOf(df) == {df[i].id : i \in 1..Len(df)}

\* the rows of a table that carry id k
RowsOf(df, k) == {df[i] : i \in mask(df, k)}

Max(S) == CHOOSE m \in S : \A n \in S : n <= m

Mutating == {"add", "close", "delete"}

\* two tables hold the same rows: they are written to the worksheet alike
\* (NaN and None are both written as the empty cell)
SameTable(a, b) == save_data(a) = save_data(b)

\* id k names exactly one row of table df
Unique(df, k) == Cardinality(mask(df, k)) = 1

IsPrefix(a, b) == Len(a) <= Len(b) /\ SubSeq(b, 1, Len(a)) = a

Contains(b, x) ==
  \E i \in 1..(Len(b) - Len(x) + 1) : SubSeq(b, i, i + Len(x) - 1) = x

\* ------------------------------------------------------------------ claims
\* C1: after a mutating operation (add_buy_position, close_position,
\* delete_trade) completes, a read in the same process (get_data) returns
\* the table as the worksheet now holds it, not an older one.
C1_ReadsSeeLastWrite ==
  (loaded /\ last.op \in Mutating) => SameTable(get_data, Persisted(sheet))

\* C2: the id add_buy_position assigns equals
\* max(ids of the rows in the persisted table, 0) + 1.
C2_NewIdIsMaxPlusOne ==
  [][last'.op = "add" =>
       last'.id = Max(IdsOf(Persisted(sheet)) \cup {0}) + 1]_vars

\* C3: an id once assigned to a trade is never assigned to a later trade.
C3_IdNeverReused ==
  [][last'.op = "add" => last'.id \notin DOMAIN opened]_vars

SheetIds(sh) ==
  [i \in 1..Len(sh.rows) |-> normalize_row(sh.cols, sh.rows[i]).id]

Distinct(f) == \A i, j \in DOMAIN f : i # j => f[i] # f[j]

C5_ClosedStaysClosed ==
  [][\A k \in IdsOf(Persisted(sheet)) :
       (/\ Unique(Persisted(sheet), k)
        /\ \E r \in RowsOf(Persisted(sheet), k) : r.status = "CLOSED")
       => ~(\E r \in RowsOf(Persisted(sheet'), k) : r.status = "OPEN")]_vars

\* C6: close_position on an id whose persisted row is already CLOSED leaves
\* that row's sell_price, close_date, pnl, pnl_percent and notes as they were.
C6_RecloseIsNoOp ==
  [][(/\ last'.op = "close"
      /\ Unique(Persisted(sheet), last'.id)
      /\ \E r \in RowsOf(Persisted(sheet), last'.id) : r.status = "CLOSED")
     => \A r \in RowsOf(Persisted(sheet), last'.id) :
          \E t \in RowsOf(Persisted(sheet'), last'.id) :
            /\ t.sell_price = r.sell_price
            /\ t.close_date = r.close_date
            /\ t.pnl = r.pnl
            /\ t.pnl_percent = r.pnl_percent
            /\ t.notes = r.notes]_vars

\* C7: closing, with notes B, a persisted trade that was opened with notes A
\* leaves it persisted as CLOSED with notes that begin with A and contain B.
C7_NotesAppended ==
  [][(/\ last'.op = "close"
      /\ last'.id \in DOMAIN opened
      /\ last'.id \in IdsOf(Persisted(sheet)))
     => \A r \in RowsOf(Persisted(sheet'), last'.id) :
          /\ r.status = "CLOSED"
          /\ IsPrefix(opened[last'.id].notes, save_notes(r.notes))
          /\ Contains(save_notes(r.notes), last'.notes)]_vars

\* the persisted row close_position has just written
ClosedNow == Persisted(sheet)[first_index(Persisted(sheet), last.id)]

\* C8: for an OPEN row with buy_price b and quantity q and sell price s,
\* close_position persists pnl = (s - b) * q, pnl_percent =
\* pnl / (b * q) * 100 when b * q is not 0 and 0 when it is, and
\* status = CLOSED.
C8_CloseComputesPnl ==
  (last.op = "close" /\ last.found /\ last.row.status = "OPEN") =>
    LET b == last.row.buy_price
        q == last.row.quantity
        s == last.sell_price
    IN /\ ClosedNow.pnl = (s - b) * q
       /\ ClosedNow.pnl_percent =
            (IF b * q # 0 THEN [k |-> "num", v |-> Rat((s - b) * q * 100, b * q)]
                          ELSE [k |-> "num", v |-> <<0, 1>>])
       /\ ClosedNow.status = "CLOSED"

\* C8 witness: an OPEN row with a non-zero cost basis was closed at a
\* price different from its buy price.
C8_Witness ==
  /\ last.op = "close" /\ last.found /\ last.row.status = "OPEN"
  /\ last.row.buy_price * last.row.quantity # 0
  /\ last.sell_price # last.row.buy_price

\* the zero-cost case of C8 is reached as well
C8_ZeroCostReached ==
  /\ last.op = "close" /\ last.found /\ last.row.status = "OPEN"
  /\ last.row.buy_price * last.row.quantity = 0

C10_MissingIdIsNoOp ==
  [][(/\ last'.op \in {"close", "delete"}
      /\ ~last'.found
      /\ last'.id \notin IdsOf(Persisted(sheet)))
     => SameTable(Persisted(sheet'), Persisted(sheet))]_vars

\* the rows of worksheet sh as save_data would write them after a load
Canonical(sh) == save_data(Persisted(sh)).rows

\* C11: after delete_trade(id) the persisted table has no row with that id
\* and holds every other row it held before, unchanged and in order.
C11_DeleteRemovesOnlyThatId ==
  [][last'.op = "delete" =>
       LET keep(r) == r.id # last'.id
       IN SameTable(Persisted(sheet'), SelectSeq(Persisted(sheet), keep))]_vars

\* C16: close_position on an existing id changes only that row, and on it
\* only sell_price, close_date, pnl, pnl_percent, status and notes.
C16_CloseTouchesOnlyItsRow ==
  [][(last'.op = "close" /\ Unique(Persisted(sheet), last'.id)) =>
       LET b == Canonical(sheet)
           a == Canonical(sheet')
           idx == first_index(Persisted(sheet), last'.id)
       IN /\ Len(a) = Len(b)
          /\ \A i \in 1..Len(b) :
               IF i # idx THEN a[i] = b[i]
               ELSE /\ a[i].id = b[i].id
                    /\ a[i].symbol = b[i].symbol
                    /\ a[i].buy_price = b[i].buy_price
                    /\ a[i].quantity = b[i].quantity
                    /\ a[i].open_date = b[i].open_date]_vars

\* C17: add_buy_position appends exactly one row (upper-cased symbol,
\* sell_price 0, no close_date, pnl 0, pnl_percent 0, status OPEN) and every
\* row persisted before the call is still there, unchanged and in order,
\* ahead of the new row.
C17_AddAppendsOneRow ==
  [][last'.op = "add" =>
       LET b == Canonical(sheet)
           a == Canonical(sheet')
       IN /\ Len(a) = Len(b) + 1
          /\ SubSeq(a, 1, Len(b)) = b
          /\ a[Len(a)].symbol \in {"AAPL"}
          /\ a[Len(a)].sell_price = [k |-> "num", v |-> 0]
          /\ a[Len(a)].close_date = ""
          /\ a[Len(a)].pnl = [k |-> "num", v |-> 0]
          /\ a[Len(a)].pnl_percent = [k |-> "num", v |-> <<0, 1>>]
          /\ a[Len(a)].status = "OPEN"]_vars

\* C20: once the cache of get_data_cached() is populated, the table it
\* holds does not change for the rest of the process: no operation modifies
\* or clears it, so every get_data() returns the table of the first load.
C20_CacheNeverChanges ==
  [][(loaded /\ loaded') => (cache' = cache /\ get_data' = get_data)]_vars

\* C20 witness: an operation has rewritten the worksheet and the cache still
\* holds the table of the first load, which differs from the persisted one.
C20_Witness ==
  /\ loaded
  /\ last.op \in Mutating
  /\ ~SameTable(cache, Persisted(sheet))

\* a missing value, however it is represented in memory
Absent(v) == IF v = None THEN NaN ELSE v

AbsentNotes(n) == IF n = NoneNotes THEN NaNNotes ELSE n

\* a table with None and NaN identified
Logical(df) ==
  [i \in 1..Len(df) |->
     [df[i] EXCEPT !.symbol = Absent(@), !.status = Absent(@),
                   !.notes = AbsentNotes(@)]]

\* the table the last add_buy_position or delete_trade handed to save_data
Written ==
  IF last.op = "add" THEN Append(cache, last.row)
  ELSE LET keep(r) == r.id # last.id IN SelectSeq(cache, keep)

\* C14: a table written by save_data and read back through the load has
\* the same rows with the same field values (dates by calendar date, absent
\* close dates still absent).
C14_RoundTrip ==
  (last.op \in {"add", "delete"}) =>
    Logical(Persisted(sheet)) = Logical(Written)

\* the CLOSED rows of df, later close dates first, rows of equal close date
\* in storage order
StableClosed(df) ==
  LET c == closed_rows(df)
      n == Len(c)
      p == CHOOSE q \in Permutations(1..n) :
             \A i, j \in 1..n : i < j =>
               \/ c[q[i]].close_date > c[q[j]].close_date
               \/ c[q[i]].close_date = c[q[j]].close_date /\ q[i] < q[j]
  IN [i \in 1..n |-> c[p[i]]]

\* C15: get_open_positions returns the OPEN rows in storage order,
\* get_closed_trades the CLOSED rows by close_date descending with rows of
\* equal close_date in storage order, and every row is in exactly one of
\* the two results.
C15_OpenAndClosedViews ==
  /\ \A i \in 1..Len(get_open_positions) :
       get_open_positions[i].status = "OPEN"
  /\ \A res \in get_closed_trades : res = StableClosed(get_data)
  /\ \A res \in get_closed_trades :
       Len(get_open_positions) + Len(res) = Len(get_data)

\* the empty worksheet with the canonical columns
EmptyCanonical == [cols |-> ColumnSet, rows |-> <<>>]

\* C18 as stated: when the worksheet is empty or lacks canonical columns,
\* the load returns an empty table and writes the empty canonical table back.
C18_MissingColumnsReinitialise ==
  [][(/\ last'.op = "load"
      /\ (Len(sheet.rows) = 0 \/ ~(ColumnSet \subseteq sheet.cols)))
     => (cache' = <<>> /\ sheet' = EmptyCanonical)]_vars

\* C18 (amended): when the worksheet is empty or has fewer than 11 columns,
\* the load returns an empty table and writes the empty canonical table
\* back; a worksheet with rows and at least 11 columns is left as it is and
\* all its rows are returned, canonical columns it lacks being filled with
\* None; every table a load returns has exactly the canonical columns.
C18_FewColumnsReinitialise ==
  [][last'.op = "load" =>
       /\ load_columns(sheet) = ColumnSet
       /\ IF Len(sheet.rows) = 0 \/ Cardinality(sheet.cols) < 11
            THEN cache' = <<>> /\ sheet' = EmptyCanonical
            ELSE /\ sheet' = sheet
                 /\ Len(cache') = Len(sheet.rows)
                 /\ \A i \in 1..Len(cache') :
                      ("notes" \notin sheet.cols) =>
                        cache'[i].notes = NoneNotes]_vars

\* C18 witness: a worksheet that had rows but fewer than 11 columns has
\* been loaded and is now the empty canonical table.
C18_Witness ==
  /\ last.op = "load"
  /\ restarts = 0
  /\ Len(start.rows) > 0
  /\ Cardinality(start.cols) < 11
  /\ sheet = EmptyCanonical
  /\ cache = <<>>

\* C12: an open request with an empty symbol, a non-positive buy_price or
\* a non-positive quantity is rejected before any mutation: no row is added
\* and the persisted table is unchanged.  Every row that is added comes
\* from a request that passed the validation, and a rejection changes
\* neither the worksheet nor the cache.
C12_InvalidOpenRejected ==
  [][/\ last'.op = "add" =>
          /\ last'.row.symbol # ""
          /\ last'.row.buy_price > 0
          /\ last'.row.quantity > 0
     /\ last'.op = "rejected" =>
          /\ sheet' = sheet
          /\ cache' = cache
          /\ loaded' = loaded]_vars

\* C12 witness: a request was rejected while the worksheet held a trade.
C12_Witness ==
  /\ last.op = "rejected"
  /\ Len(sheet.rows) > 0
  /\ loaded

StoreErrors == {"read_error", "write_error"}

\* C13 as stated: when a read or write of the store fails during an
\* operation, the worksheet is exactly what it was before the operation.
C13_FailureLeavesStoreUntouched ==
  [][last'.op \in StoreErrors => sheet' = sheet]_vars

\* C13 (amended): when a read or write of the store fails during an
\* operation, the worksheet is what it was before the operation, except
\* that the empty canonical table written by the first load of a process
\* (worksheet empty or with fewer than 11 columns) remains.
C13_FailureLeavesNoPartialWrite ==
  [][last'.op \in StoreErrors =>
       \/ sheet' = sheet
       \/ /\ ~loaded
          /\ Len(sheet.rows) = 0 \/ Cardinality(sheet.cols) < 11
          /\ last'.op = "write_error"
          /\ sheet' = EmptyCanonical]_vars

\* C13 witness: the save of an operation failed after earlier operations
\* had written trades, and those trades are still persisted.
C13_Witness ==
  /\ last.op = "write_error"
  /\ Len(sheet.rows) > 0
  /\ opened # <<>>

\* both sessions read before either wrote, and both have written
Interleaved ==
  /\ Len(sess.log) = 4
  /\ sess.log[1][1] = "read"
  /\ sess.log[2][1] = "read"

\* C19: when the read-modify-write cycles of two sessions interleave (both
\* read before either writes), the last writer wins: the worksheet is
\* exactly the table the later writer saved, which was computed without the
\* change of the earlier writer, and both sessions end without an error.
C19_LastWriterWins ==
  Interleaved =>
    LET later == sess.log[4][2]
    IN /\ sheet = save_data(sess.df[later])
       /\ \A s \in Sessions : sess.pc[s] = "done"
       /\ last.op \notin StoreErrors

\* C19 witness: the cycles interleaved, the earlier writer added a row, the
\* later writer added a different one, and only the later one is persisted.
C19_Witness ==
  /\ Interleaved
  /\ sess.op[sess.log[3][2]].op = "add"
  /\ sess.op[sess.log[4][2]].op = "add"
  /\ sheet # save_data(sess.df[sess.log[3][2]])
  /\ sheet = save_data(sess.df[sess.log[4][2]])
  /\ Len(sheet.rows) = 1

====
